---------------------------- MODULE Spec2Model ----------------------------
(***************************************************************************)
(* A model of hextract: the hex/RGB codec (componentToHex, rgbToHex,       *)
(* rgbToHexString, hexToRgb) and the two computeAverageColor               *)
(* implementations (src/src/index.ts and src/src/index.tsx) running on a   *)
(* cooperative, event-driven browser host.                                 *)
(*                                                                         *)
(* Strings are sequences of one-character strings, so that formatting and  *)
(* parsing are computed digit by digit.                                    *)
(***************************************************************************)
EXTENDS Integers, Sequences, FiniteSets, TLC

VARIABLES
    host,      \* the execution environment the library runs in
    calls,     \* one record per computeAverageColor invocation slot
    running,   \* the call whose synchronous code occupies the event loop (0: none)
    codec,     \* one use of the codec: its input, its stage and its result
    calc,      \* one use of contrast: its arguments and what it computed
    heap       \* the canvas elements and Image objects the host has made

vars == <<host, calls, running, codec, calc, heap>>

(***************************************************************************)
(* Bounds of the model.                                                    *)
(***************************************************************************)
MaxPixels == 2      \* largest decoded image, in pixels
MaxEvents == 2      \* host events delivered to one call under SpecEvents
MaxEdits == 1       \* edits applied to a seed string before hexToRgb is called

\* The largest channel value: "values 0-255" in the documentation of the codec.
MaxChannel == 255

Channels == 0..MaxChannel

(***************************************************************************)
(* Characters.                                                             *)
(***************************************************************************)
\* Number.prototype.toString(16) writes these digits, in this order.
HexDigits ==
    <<"0", "1", "2", "3", "4", "5", "6", "7", "8", "9", "a", "b", "c", "d", "e", "f">>

\* The case folding the "i" flag of the regular expression and parseInt apply.
LowerOf(ch) ==
    CASE ch = "A" -> "a"
      [] ch = "B" -> "b"
      [] ch = "C" -> "c"
      [] ch = "D" -> "d"
      [] ch = "E" -> "e"
      [] ch = "F" -> "f"
      [] ch = "G" -> "g"
      [] ch = "X" -> "x"
      [] OTHER -> ch

\* The character class [a-f\d] under the "i" flag.
HexClass(ch) ==
    \/ ch \in {"0", "1", "2", "3", "4", "5", "6", "7", "8", "9"}
    \/ LowerOf(ch) \in {"a", "b", "c", "d", "e", "f"}

\* The value parseInt(_, 16) gives one digit.
HexVal(ch) == CHOOSE v \in 0..15 : HexDigits[v + 1] = LowerOf(ch)

(***************************************************************************)
(* The codec.                                                              *)
(***************************************************************************)
RECURSIVE toString16(_)
\* c.toString(16) for a non-negative integer c.
toString16(c) ==
    IF c < 16
    THEN <<HexDigits[c + 1]>>
    ELSE Append(toString16(c \div 16), HexDigits[(c % 16) + 1])

\* A plausible slip: the padding branch is dropped.
componentToHexNoPad(c) == toString16(c)

componentToHex(c) ==
    LET hex == toString16(c)
    IN  IF Len(hex) = 1 THEN <<"0">> \o hex ELSE hex

rgbToHex(r, g, b) ==
    <<"#">> \o componentToHex(r) \o componentToHex(g) \o componentToHex(b)

rgbToHexString(r, g, b) == rgbToHex(r, g, b)

RECURSIVE parseInt16(_)
\* parseInt(s, 16) on a string of hexadecimal digits.
parseInt16(s) ==
    IF s = <<>>
    THEN 0
    ELSE 16 * parseInt16(SubSeq(s, 1, Len(s) - 1)) + HexVal(s[Len(s)])

\* The result of RegExp.prototype.exec when nothing matches.
Null == <<>>

\* Six characters of the class from position i on, and then the end of input.
MatchAt(hex, i) ==
    /\ Len(hex) = i + 5
    /\ \A k \in i..(i + 5) : HexClass(hex[k])

Groups(hex, i) ==
    <<SubSeq(hex, i, i + 1), SubSeq(hex, i + 2, i + 3), SubSeq(hex, i + 4, i + 5)>>

\* A plausible slip: the "i" flag is missing, so only lowercase letters match.
RegexExecCaseSensitive(hex) ==
    LET Lower(i) == \A k \in i..(i + 5) : LowerOf(hex[k]) = hex[k]
    IN  IF Len(hex) >= 1 /\ hex[1] = "#" /\ MatchAt(hex, 2) /\ Lower(2)
        THEN Groups(hex, 2)
        ELSE IF MatchAt(hex, 1) /\ Lower(1) THEN Groups(hex, 1) ELSE Null

\* /^#?([a-f\d]{2})([a-f\d]{2})([a-f\d]{2})$/i.exec(hex): the greedy "#?" first
\* takes a leading "#"; when the rest then fails, the match is retried without it.
RegexExec(hex) ==
    IF Len(hex) >= 1 /\ hex[1] = "#" /\ MatchAt(hex, 2)
    THEN Groups(hex, 2)
    ELSE IF MatchAt(hex, 1) THEN Groups(hex, 1) ELSE Null

\* What a function call gives back: a value, or the error it throws.
Returned(v) == [tag |-> "ok", value |-> v]
Thrown(kind, message) == [tag |-> "throw", error |-> [kind |-> kind, message |-> message]]
NotCalled == [tag |-> "none"]

\* new Error(`[hextract] Invalid hex color: ${hex}`)
InvalidFormat(hex) == Thrown("InvalidFormat", <<"[hextract] Invalid hex color: ">> \o hex)

hexToRgb(hex) ==
    LET result == RegexExec(hex)
    IN  IF result = Null
        THEN InvalidFormat(hex)
        ELSE Returned(<<parseInt16(result[1]), parseInt16(result[2]), parseInt16(result[3])>>)

(***************************************************************************)
(* Luminance and contrast.  Numbers are fixed-point: a linearised channel  *)
(* is counted in units of 1/LinearOne, a luminance in units of 1/LumOne,   *)
(* and a contrast ratio is kept as the pair <<dividend, divisor>> of its   *)
(* division.                                                               *)
(***************************************************************************)
\* The weights, in units of 0.0001.
RED == 2126
GREEN == 7152
BLUE == 722

\* Math.pow((c / 255 + 0.055) / 1.055, GAMMA) for c = 0..255 at index c + 1,
\* rounded to five decimals.
GammaTable ==
    <<
       83, 98, 115, 133, 152, 173, 196, 220, 246, 274, 303, 335,
       368, 402, 439, 478, 518, 561, 605, 651, 700, 750, 802, 857,
       913, 972, 1033, 1096, 1161, 1229, 1298, 1370, 1444, 1521, 1600, 1681,
       1764, 1850, 1938, 2029, 2122, 2217, 2315, 2416, 2519, 2624, 2732, 2843,
       2956, 3071, 3190, 3310, 3434, 3560, 3689, 3820, 3955, 4092, 4231, 4374,
       4519, 4667, 4817, 4971, 5127, 5286, 5448, 5613, 5781, 5951, 6125, 6301,
       6480, 6663, 6848, 7036, 7227, 7421, 7619, 7819, 8022, 8228, 8438, 8650,
       8866, 9084, 9306, 9531, 9759, 9990, 10224, 10462, 10702, 10946, 11193, 11444,
       11697, 11954, 12214, 12477, 12744, 13014, 13287, 13563, 13843, 14126, 14413, 14703,
       14996, 15293, 15593, 15896, 16203, 16513, 16827, 17144, 17465, 17789, 18116, 18447,
       18782, 19120, 19462, 19807, 20156, 20508, 20864, 21223, 21586, 21953, 22323, 22697,
       23074, 23455, 23840, 24228, 24620, 25016, 25415, 25818, 26225, 26636, 27050, 27468,
       27889, 28315, 28744, 29177, 29614, 30054, 30499, 30947, 31399, 31855, 32314, 32778,
       33245, 33716, 34191, 34670, 35153, 35640, 36131, 36625, 37124, 37626, 38133, 38643,
       39157, 39676, 40198, 40724, 41254, 41789, 42327, 42869, 43415, 43966, 44520, 45079,
       45641, 46208, 46778, 47353, 47932, 48515, 49102, 49693, 50289, 50888, 51492, 52100,
       52712, 53328, 53948, 54572, 55201, 55834, 56471, 57112, 57758, 58408, 59062, 59720,
       60383, 61050, 61721, 62396, 63076, 63760, 64448, 65141, 65837, 66539, 67244, 67954,
       68669, 69387, 70110, 70838, 71569, 72306, 73046, 73791, 74540, 75294, 76052, 76815,
       77582, 78354, 79130, 79910, 80695, 81485, 82279, 83077, 83880, 84687, 85499, 86316,
       87137, 87962, 88792, 89627, 90466, 91310, 92158, 93011, 93869, 94731, 95597, 96469,
       97345, 98225, 99110, 100000
    >>

LinearOne == GammaTable[256]
LumOne == LinearOne * (RED + GREEN + BLUE)

\* The map callback of luminance: v /= 255, then v / 12.92 when v <= 0.03928
\* and the power otherwise.
srgbToLinear(c) ==
    IF c * 100000 <= 3928 * 255
    THEN (c * 100 * LinearOne + (255 * 1292) \div 2) \div (255 * 1292)
    ELSE GammaTable[c + 1]

\* A plausible slip: the blue weight written as 0.722.
luminanceHeavyBlue(r, g, b) ==
    srgbToLinear(r) * RED + srgbToLinear(g) * GREEN + srgbToLinear(b) * (10 * BLUE)

luminance(r, g, b) ==
    srgbToLinear(r) * RED + srgbToLinear(g) * GREEN + srgbToLinear(b) * BLUE

Max(x, y) == IF x >= y THEN x ELSE y
Min(x, y) == IF x <= y THEN x ELSE y

\* A plausible slip: the luminances are divided in the order of the arguments.
contrastUnordered(rgb1, rgb2) ==
    LET lum1 == luminance(rgb1[1], rgb1[2], rgb1[3])
        lum2 == luminance(rgb2[1], rgb2[2], rgb2[3])
    IN  <<lum1 + LumOne \div 20, lum2 + LumOne \div 20>>

\* (brightest + 0.05) / (darkest + 0.05), as <<dividend, divisor>>.
contrast(rgb1, rgb2) ==
    LET lum1 == luminance(rgb1[1], rgb1[2], rgb1[3])
        lum2 == luminance(rgb2[1], rgb2[2], rgb2[3])
        brightest == Max(lum1, lum2)
        darkest == Min(lum1, lum2)
    IN  <<brightest + LumOne \div 20, darkest + LumOne \div 20>>

(***************************************************************************)
(* The host: what the environment provides to computeAverageColor.         *)
(***************************************************************************)
\* window, document: whether the globals are defined.
\* createElement: what document.createElement("canvas") does.
\* getContext: what canvas.getContext("2d") returns.
Hosts ==
    {h \in [window : BOOLEAN, document : BOOLEAN,
            createElement : {"canvas", "null", "throws"},
            getContext : {"context", "null"}] :
        /\ (~h.document => h.createElement = "canvas")
        /\ (h.createElement # "canvas" => h.getContext = "context")}

Browser ==
    [window |-> TRUE, document |-> TRUE, createElement |-> "canvas", getContext |-> "context"]

(***************************************************************************)
(* Errors.  The library throws plain Error objects told apart by their     *)
(* message; kind is the name the specification gives each of them.         *)
(***************************************************************************)
Err(kind, message) == [kind |-> kind, message |-> message]

EnvironmentError ==
    Err("EnvironmentError",
        <<"[hextract] computeAverageColor requires a browser environment with DOM access">>)
ContextError == Err("ContextError", <<"[hextract] Could not get 2d context">>)
SurfaceError == Err("SurfaceError", <<"[hextract] Could not create canvas">>)
InvalidInputError == Err("InvalidInputError", <<"[hextract] Invalid image source type">>)
ImageLoadError == Err("ImageLoadError", <<"[hextract] Failed to load image">>)
\* new Error(`[hextract] Failed to process image: ${error.message}`)
PixelAccessError(error) ==
    Err("PixelAccessError", <<"[hextract] Failed to process image: ">> \o error.message)

\* Errors of the platform itself.
ReferenceError == Err("ReferenceError", <<"document is not defined">>)
NullDeref == Err("TypeError", <<"Cannot read properties of null">>)
CreateElementFailure == Err("HostError", <<"createElement failed">>)
\* drawImage on an image in the broken state.
InvalidStateError == Err("InvalidStateError", <<"The image is in the broken state">>)
\* getImageData on a canvas tainted by cross-origin data.
SecurityError == Err("SecurityError", <<"The canvas has been tainted by cross-origin data">>)
\* getImageData with a width or height of zero.
IndexSizeError == Err("IndexSizeError", <<"The source width is 0">>)

(***************************************************************************)
(* Decoded images: width, height and the RGBA bytes getImageData returns   *)
(* for them, four per pixel, row by row.                                   *)
(***************************************************************************)
Black == <<0, 0, 0, 255>>
White == <<255, 255, 255, 255>>
Moss == <<16, 87, 5, 128>>
Pixels == {Black, White, Moss}

RECURSIVE Flatten(_)
Flatten(ps) == IF ps = <<>> THEN <<>> ELSE ps[1] \o Flatten(Tail(ps))

PixelRows == UNION {[1..n -> Pixels] : n \in 0..MaxPixels}

ImageOf(ps) ==
    [width |-> Len(ps), height |-> IF Len(ps) = 0 THEN 0 ELSE 1, data |-> Flatten(ps)]

Images == {ImageOf(ps) : ps \in PixelRows}

NoImage == [width |-> 0, height |-> 0, data |-> <<-1>>]

(***************************************************************************)
(* One computeAverageColor call.                                           *)
(***************************************************************************)
Calls == {1, 2}

NoError == Err("none", <<>>)
NoOutcome == [tag |-> "none", value |-> <<>>, error |-> NoError]
Value(hex) == [tag |-> "value", value |-> hex, error |-> NoError]
Failure(error) == [tag |-> "error", value |-> <<>>, error |-> error]

\* pc: idle (not invoked), sync (its synchronous code runs), returned.
\* img: the Image the call constructs; decodes: the assignments to img.src.
\* objectURL, urlsCreated, revokes: URL.createObjectURL / URL.revokeObjectURL.
\* promise, outcome: the promise the caller holds; observed: what its
\* then/catch callbacks are given; settleCalls: invocations of resolve/reject.
\* events: the host events delivered; decoded: the pixels the host decoded.
\* drawn, readbacks: completed drawImage / getImageData calls.
\* canvasId, imgId: the objects the local variables canvas and img refer to.
\* raised: exceptions the host raised inside an event handler;
\* uncaught: those that left the handler.
IdleCall ==
    [pc |-> "idle", impl |-> "none", source |-> "none",
     canvas |-> FALSE, ctx |-> FALSE, canvasId |-> 0, imgId |-> 0,
     img |-> [made |-> FALSE, src |-> "unset", crossOrigin |-> "unset"],
     decodes |-> 0, objectURL |-> "none", urlsCreated |-> 0, revokes |-> 0,
     handlers |-> {}, promise |-> "none", outcome |-> NoOutcome,
     observed |-> <<>>, settleCalls |-> 0,
     events |-> <<>>, decoded |-> NoImage, drawn |-> 0, readbacks |-> 0,
     raised |-> <<>>, uncaught |-> <<>>]

\* resolve(v) of the promise: only the first resolve or reject has an effect.
Resolve(cr, v) ==
    IF cr.promise = "pending"
    THEN [cr EXCEPT !.settleCalls = @ + 1, !.promise = "fulfilled",
                    !.outcome = Value(v), !.observed = Append(@, Value(v))]
    ELSE [cr EXCEPT !.settleCalls = @ + 1]

\* reject(e) of the promise.
Reject(cr, e) ==
    IF cr.promise = "pending"
    THEN [cr EXCEPT !.settleCalls = @ + 1, !.promise = "rejected",
                    !.outcome = Failure(e), !.observed = Append(@, Failure(e))]
    ELSE [cr EXCEPT !.settleCalls = @ + 1]

\* An exception thrown by the body of the async function, before it returns:
\* the promise it returns is rejected with it.
AsyncThrow(cr, e) ==
    [cr EXCEPT !.pc = "returned", !.promise = "rejected",
               !.outcome = Failure(e), !.observed = <<Failure(e)>>]

\* URL.revokeObjectURL(img.src)
RevokeObjectURL(cr) == [cr EXCEPT !.objectURL = "revoked", !.revokes = @ + 1]

(***************************************************************************)
(* The average colour of an RGBA buffer.                                   *)
(***************************************************************************)
RECURSIVE SumFrom(_, _, _)
\* The loop "for (i = 0; i < data.length; i += 4) sum += data[i + k]",
\* with i counted from 1 here.
SumFrom(data, i, k) ==
    IF i > Len(data) THEN 0 ELSE data[i + k] + SumFrom(data, i + 4, k)

\* A plausible slip: Math.round in place of Math.floor.
AverageHexRounded(data) ==
    LET count == Len(data) \div 4
        Round(x) == (2 * x + count) \div (2 * count)
    IN  rgbToHex(Round(SumFrom(data, 1, 0)), Round(SumFrom(data, 1, 1)),
                 Round(SumFrom(data, 1, 2)))

\* count = data.length / 4; the three sums; Math.floor of each quotient; rgbToHex.
AverageHex(data) ==
    LET count == Len(data) \div 4
        r == SumFrom(data, 1, 0)
        g == SumFrom(data, 1, 1)
        b == SumFrom(data, 1, 2)
    IN  rgbToHex(r \div count, g \div count, b \div count)

\* What drawImage and getImageData do with a decoded image: fault is the
\* exception the host raises, if any.  A zero-sized image draws nothing and
\* makes getImageData throw IndexSizeError.
Faults == {"none", "draw", "read"}
DrawThrows(im, fault) == fault = "draw"
ReadThrows(im, fault) == fault = "read" \/ im.width = 0 \/ im.height = 0
ReadError(im, fault) == IF fault = "read" THEN SecurityError ELSE IndexSizeError

(***************************************************************************)
(* computeAverageColor of src/src/index.ts.                                *)
(***************************************************************************)
Sources == {"element", "url", "file", "other"}

\* A plausible slip: the final "else throw" is missing, so that an unsupported
\* source is used as a URL.
computeAverageColorNoElse(cr, h, source) ==
    LET c0 == [cr EXCEPT !.pc = "sync", !.impl = "ts", !.source = source]
    IN  IF ~h.window \/ ~h.document
        THEN AsyncThrow(c0, EnvironmentError)
        ELSE IF h.createElement = "throws"
        THEN AsyncThrow(c0, CreateElementFailure)
        ELSE IF h.createElement = "null"
        THEN AsyncThrow(c0, NullDeref)
        ELSE LET c1 == [c0 EXCEPT !.canvas = TRUE]
             IN  IF h.getContext = "null"
                 THEN AsyncThrow(c1, ContextError)
                 ELSE LET c2 == [c1 EXCEPT !.ctx = TRUE, !.img.made = TRUE]
                      IN  CASE source = "element" ->
                                 [c2 EXCEPT !.img.src = "element.src",
                                            !.img.crossOrigin = "element.crossOrigin",
                                            !.decodes = @ + 1]
                            [] source = "file" ->
                                 [c2 EXCEPT !.img.src = "blob:",
                                            !.objectURL = "live",
                                            !.urlsCreated = @ + 1,
                                            !.decodes = @ + 1]
                            [] OTHER ->
                                 [c2 EXCEPT !.img.src = "url",
                                            !.img.crossOrigin = "anonymous",
                                            !.decodes = @ + 1]

\* The synchronous body, up to the construction of the promise: the
\* environment check, the canvas and its context, the Image and its source.
computeAverageColor(cr, h, source) ==
    LET c0 == [cr EXCEPT !.pc = "sync", !.impl = "ts", !.source = source]
    IN  IF ~h.window \/ ~h.document
        THEN AsyncThrow(c0, EnvironmentError)
        ELSE IF h.createElement = "throws"
        THEN AsyncThrow(c0, CreateElementFailure)
        ELSE IF h.createElement = "null"
        THEN AsyncThrow(c0, NullDeref)               \* canvas.style of null
        ELSE LET c1 == [c0 EXCEPT !.canvas = TRUE]
             IN  IF h.getContext = "null"
                 THEN AsyncThrow(c1, ContextError)
                 ELSE LET c2 == [c1 EXCEPT !.ctx = TRUE, !.img.made = TRUE]
                      IN  CASE source = "element" ->
                                 [c2 EXCEPT !.img.src = "element.src",
                                            !.img.crossOrigin = "element.crossOrigin",
                                            !.decodes = @ + 1]
                            [] source = "url" ->
                                 [c2 EXCEPT !.img.src = "url",
                                            !.img.crossOrigin = "anonymous",
                                            !.decodes = @ + 1]
                            [] source = "file" ->
                                 [c2 EXCEPT !.img.src = "blob:",
                                            !.objectURL = "live",
                                            !.urlsCreated = @ + 1,
                                            !.decodes = @ + 1]
                            [] OTHER -> AsyncThrow(c2, InvalidInputError)

\* A plausible slip: the executor attaches no error handler.
newPromiseNoOnerror(cr) ==
    [cr EXCEPT !.pc = "returned", !.promise = "pending", !.handlers = {"load"}]

\* return new Promise(...): the executor attaches both handlers.
newPromise(cr) ==
    [cr EXCEPT !.pc = "returned", !.promise = "pending", !.handlers = {"load", "error"}]

\* A plausible slip: no try/catch around the body of the handler.
onloadNoCatch(cr, im, fault) ==
    LET c0 == [cr EXCEPT !.decoded = im]
    IN  IF DrawThrows(im, fault)
        THEN [c0 EXCEPT !.raised = Append(@, InvalidStateError),
                        !.uncaught = Append(@, InvalidStateError)]
        ELSE IF ReadThrows(im, fault)
        THEN [c0 EXCEPT !.drawn = @ + 1,
                        !.raised = Append(@, ReadError(im, fault)),
                        !.uncaught = Append(@, ReadError(im, fault))]
        ELSE Resolve([c0 EXCEPT !.drawn = @ + 1, !.readbacks = @ + 1], AverageHex(im.data))

\* img.onload
onload(cr, im, fault) ==
    LET c0 == [cr EXCEPT !.decoded = im]
    IN  IF DrawThrows(im, fault)
        THEN Reject([c0 EXCEPT !.raised = Append(@, InvalidStateError)],
                    PixelAccessError(InvalidStateError))
        ELSE LET c1 == [c0 EXCEPT !.drawn = @ + 1]
             IN  IF ReadThrows(im, fault)
                 THEN Reject([c1 EXCEPT !.raised = Append(@, ReadError(im, fault))],
                             PixelAccessError(ReadError(im, fault)))
                 ELSE LET c2 == [c1 EXCEPT !.readbacks = @ + 1]
                          c3 == Resolve(c2, AverageHex(im.data))
                      IN  IF cr.source = "file" THEN RevokeObjectURL(c3) ELSE c3

\* A plausible slip: the error handler starts the decode again.
onerrorRetry(cr) == [cr EXCEPT !.decodes = @ + 1]

\* img.onerror
onerror(cr) == Reject(cr, ImageLoadError)

(***************************************************************************)
(* computeAverageColor of src/src/index.tsx, which takes an image element. *)
(***************************************************************************)
computeAverageColorTsx(cr, h) ==
    LET c0 == [cr EXCEPT !.pc = "sync", !.impl = "tsx", !.source = "element"]
    IN  IF ~h.document
        THEN AsyncThrow(c0, ReferenceError)          \* document is not defined
        ELSE IF h.createElement = "throws"
        THEN AsyncThrow(c0, CreateElementFailure)
        ELSE IF h.createElement = "null"
        THEN AsyncThrow(c0, NullDeref)               \* canvas.style of null
        ELSE [c0 EXCEPT !.canvas = TRUE, !.img.made = TRUE,
                        !.img.src = "element.src", !.decodes = @ + 1]

\* return new Promise(...): the executor attaches a load handler only.
newPromiseTsx(cr) ==
    [cr EXCEPT !.pc = "returned", !.promise = "pending", !.handlers = {"load"}]

\* img.onload: neither reject ends the handler, and nothing catches what the
\* statements after it throw.
onloadTsx(cr, h, im, fault) ==
    LET c0 == [cr EXCEPT !.decoded = im]
        c1 == IF ~c0.canvas THEN Reject(c0, SurfaceError) ELSE c0
        c2 == IF h.getContext = "null"
              THEN Reject(c1, ContextError)
              ELSE [c1 EXCEPT !.ctx = TRUE]
    IN  IF h.getContext = "null"
        THEN [c2 EXCEPT !.uncaught = Append(@, NullDeref)]     \* ctx!.drawImage
        ELSE IF DrawThrows(im, fault)
        THEN [c2 EXCEPT !.raised = Append(@, InvalidStateError),
                        !.uncaught = Append(@, InvalidStateError)]
        ELSE LET c3 == [c2 EXCEPT !.drawn = @ + 1]
             IN  IF ReadThrows(im, fault)
                 THEN [c3 EXCEPT !.raised = Append(@, ReadError(im, fault)),
                                 !.uncaught = Append(@, ReadError(im, fault))]
                 ELSE Resolve([c3 EXCEPT !.readbacks = @ + 1], AverageHex(im.data))

(***************************************************************************)
(* The steps of the extractor.  The synchronous code of a call runs to     *)
(* completion: while it runs (running # 0) the host delivers no event and  *)
(* starts no other call.                                                   *)
(***************************************************************************)
\* The objects the host has made: the number of canvas elements, and for
\* every Image the calls whose closures are its onload and onerror properties
\* (0: the property is not set).
EmptyHeap == [canvases |-> 0, images |-> <<>>]

NoHandlers == [onload |-> 0, onerror |-> 0]

\* document.createElement("canvas") returns a new element.
createElement(hp) == hp.canvases + 1

\* A plausible slip: one Image, made once and used by every call.
newImageShared(hp) == 1

\* new Image() returns a new object.
newImage(hp) == Len(hp.images) + 1

\* The objects the synchronous body of a call has made.
Allocate(hp, cr) ==
    LET i == newImage(hp)
    IN  [canvases |-> IF cr.canvas THEN createElement(hp) ELSE hp.canvases,
         images   |-> IF cr.img.made /\ i > Len(hp.images)
                      THEN Append(hp.images, NoHandlers)
                      ELSE hp.images]

Enter(c, cr) ==
    /\ calls' = [calls EXCEPT ![c] =
                    [cr EXCEPT !.canvasId = IF cr.canvas THEN createElement(heap) ELSE 0,
                               !.imgId = IF cr.img.made THEN newImage(heap) ELSE 0]]
    /\ heap' = Allocate(heap, cr)
    /\ running' = IF cr.pc = "sync" THEN c ELSE 0
    /\ UNCHANGED <<host, codec, calc>>

InvokeTs(c) ==
    /\ running = 0
    /\ calls[c].pc = "idle"
    /\ \E source \in Sources : Enter(c, computeAverageColor(calls[c], host, source))

InvokeTsx(c) ==
    /\ running = 0
    /\ calls[c].pc = "idle"
    /\ Enter(c, computeAverageColorTsx(calls[c], host))

\* img.onload = ..., img.onerror = ... : the properties of the call's Image.
Attach(c) ==
    /\ running = c
    /\ calls[c].pc = "sync"
    /\ LET cr == IF calls[c].impl = "ts" THEN newPromise(calls[c])
                 ELSE newPromiseTsx(calls[c])
       IN  /\ calls' = [calls EXCEPT ![c] = cr]
           /\ heap' = [heap EXCEPT !.images[cr.imgId] =
                         [onload  |-> IF "load" \in cr.handlers THEN c ELSE @.onload,
                          onerror |-> IF "error" \in cr.handlers THEN c ELSE @.onerror]]
    /\ running' = 0
    /\ UNCHANGED <<host, codec, calc>>

\* The host may deliver an event to a call whose decode it has started.
Deliverable(c, cap) ==
    /\ running = 0
    /\ calls[c].decodes > 0
    /\ Len(calls[c].events) < cap

\* One decode gives one image: a repeated load event brings the same pixels.
Decodable(cr) == IF cr.decoded = NoImage THEN Images ELSE {cr.decoded}

\* The decode call c started completes: the host runs the onload property of
\* the Image the decode was started on.
DeliverLoad(c, cap) ==
    /\ Deliverable(c, cap)
    /\ \E im \in Decodable(calls[c]), fault \in Faults :
          LET delivered == [calls EXCEPT ![c].events = Append(@, "load")]
              o == heap.images[calls[c].imgId].onload
          IN  calls' = IF o = 0 THEN delivered
                       ELSE [delivered EXCEPT ![o] =
                               IF @.impl = "ts" THEN onload(@, im, fault)
                               ELSE onloadTsx(@, host, im, fault)]
    /\ UNCHANGED <<host, running, codec, calc, heap>>

\* The decode call c started fails: the host runs the onerror property.
DeliverError(c, cap) ==
    /\ Deliverable(c, cap)
    /\ LET delivered == [calls EXCEPT ![c].events = Append(@, "error")]
           o == heap.images[calls[c].imgId].onerror
       IN  calls' = IF o = 0 THEN delivered
                    ELSE [delivered EXCEPT ![o] = onerror(@)]
    /\ UNCHANGED <<host, running, codec, calc, heap>>

(***************************************************************************)
(* The steps of a use of the codec: a triple is formatted, or a string is  *)
(* written and edited, and the string is then parsed.                      *)
(***************************************************************************)
CodecIdle == [stage |-> "idle", rgb |-> <<>>, hex |-> <<>>, edits |-> 0, result |-> NotCalled]

\* Channel values on both sides of the one-digit / two-digit boundary.
SampleChannels == {0, 15, 16, MaxChannel}

\* Triples with one channel over the whole range and the others sampled.
Triples ==
    {<<255, 87, 51>>} \cup
    UNION { {<<c, a, b>>, <<a, c, b>>, <<a, b, c>>} :
            <<c, a, b>> \in Channels \X SampleChannels \X SampleChannels }

\* Strings callers hand to hexToRgb.
Seeds ==
    { <<"x", "y", "z", "1", "2", "3">>,
      <<"#", "f", "f", "f">>,
      <<>>,
      <<"f", "f", "5", "7", "3", "3">>,
      <<"#", "F", "F", "5", "7", "3", "3">>,
      <<"#", "f", "f", "5", "7", "3", "3">>,
      <<"#", "0", "0", "0", "0", "0", "0">>,
      <<"A", "b", "C", "d", "E", "f">> }

\* Characters an edit writes.
Alphabet == {"#", "0", "9", "a", "F", "g", "G", " "}

Replaced(s, i, ch) == [s EXCEPT ![i] = ch]
Deleted(s, i) == SubSeq(s, 1, i - 1) \o SubSeq(s, i + 1, Len(s))
Inserted(s, i, ch) == SubSeq(s, 1, i) \o <<ch>> \o SubSeq(s, i + 1, Len(s))

Format ==
    /\ codec.stage = "idle"
    /\ \E t \in Triples :
          codec' = [codec EXCEPT !.stage = "formatted", !.rgb = t,
                                 !.hex = rgbToHexString(t[1], t[2], t[3])]
    /\ UNCHANGED <<host, calls, running, calc, heap>>

Write ==
    /\ codec.stage = "idle"
    /\ \E s \in Seeds : codec' = [codec EXCEPT !.stage = "written", !.hex = s]
    /\ UNCHANGED <<host, calls, running, calc, heap>>

Edit ==
    /\ codec.stage = "written"
    /\ codec.edits < MaxEdits
    /\ \E ch \in Alphabet :
          \/ \E i \in 1..Len(codec.hex) :
                codec' = [codec EXCEPT !.edits = @ + 1, !.hex = Replaced(@, i, ch)]
          \/ \E i \in 0..Len(codec.hex) :
                codec' = [codec EXCEPT !.edits = @ + 1, !.hex = Inserted(@, i, ch)]
          \/ \E i \in 1..Len(codec.hex) :
                codec' = [codec EXCEPT !.edits = @ + 1, !.hex = Deleted(@, i)]
    /\ UNCHANGED <<host, calls, running, calc, heap>>

Parse ==
    /\ codec.stage \in {"formatted", "written"}
    /\ codec' = [codec EXCEPT !.stage = "parsed", !.result = hexToRgb(codec.hex)]
    /\ UNCHANGED <<host, calls, running, calc, heap>>

(***************************************************************************)
(* The steps of a use of contrast: it is called on two colours, and then   *)
(* on the same colours in the other order.                                 *)
(***************************************************************************)
CalcIdle ==
    [stage |-> "idle", rgb1 |-> <<>>, rgb2 |-> <<>>, lum1 |-> 0, lum2 |-> 0,
     ratio |-> <<0, 0>>, swapped |-> <<0, 0>>]

\* Channel values on both sides of the 0.03928 threshold (10 / 255 is below
\* it, 11 / 255 above).
ThresholdChannels == {0, 10, 11, MaxChannel}
CoarseColours == ThresholdChannels \X ThresholdChannels \X ThresholdChannels

\* Colours with one channel over the whole range and the others at an end.
WideColours ==
    CoarseColours \cup
    UNION { {<<c, a, b>>, <<a, c, b>>, <<a, b, c>>} :
            <<c, a, b>> \in Channels \X {0, MaxChannel} \X {0, MaxChannel} }

CallContrast ==
    /\ calc.stage = "idle"
    /\ \E a \in WideColours, b \in CoarseColours :
          calc' = [calc EXCEPT !.stage = "called", !.rgb1 = a, !.rgb2 = b,
                               !.lum1 = luminance(a[1], a[2], a[3]),
                               !.lum2 = luminance(b[1], b[2], b[3]),
                               !.ratio = contrast(a, b)]
    /\ UNCHANGED <<host, calls, running, codec, heap>>

CallSwapped ==
    /\ calc.stage = "called"
    /\ calc' = [calc EXCEPT !.stage = "swapped", !.swapped = contrast(calc.rgb2, calc.rgb1)]
    /\ UNCHANGED <<host, calls, running, codec, heap>>

(***************************************************************************)
(* Specifications.                                                         *)
(***************************************************************************)
Init ==
    /\ host \in Hosts
    /\ calls = [c \in Calls |-> IdleCall]
    /\ running = 0
    /\ codec = CodecIdle
    /\ calc = CalcIdle
    /\ heap = EmptyHeap

\* The extractor on a host that completes each decode with one event.
Next ==
    \E c \in Calls :
        \/ InvokeTs(c)
        \/ InvokeTsx(c)
        \/ Attach(c)
        \/ DeliverLoad(c, 1)
        \/ DeliverError(c, 1)

Spec == Init /\ [][Next]_vars

\* One call on a host that may deliver any sequence of load and error events.
NextEvents ==
    \/ InvokeTs(1)
    \/ InvokeTsx(1)
    \/ Attach(1)
    \/ DeliverLoad(1, MaxEvents)
    \/ DeliverError(1, MaxEvents)

SpecEvents == Init /\ [][NextEvents]_vars

\* The codec alone.
InitCodec ==
    /\ host = Browser
    /\ calls = [c \in Calls |-> IdleCall]
    /\ running = 0
    /\ codec = CodecIdle
    /\ calc = CalcIdle
    /\ heap = EmptyHeap

NextCodec == Format \/ Write \/ Edit \/ Parse

SpecCodec == InitCodec /\ [][NextCodec]_vars

\* contrast alone.
NextContrast == CallContrast \/ CallSwapped

SpecContrast == InitCodec /\ [][NextContrast]_vars

(***************************************************************************)
(* Properties of the extractor.                                            *)
(***************************************************************************)
Ts(c) == calls[c].impl = "ts"
Settled(c) == calls[c].promise \in {"fulfilled", "rejected"}
FailedWith(c, e) ==
    /\ calls[c].promise = "rejected"
    /\ calls[c].outcome = Failure(e)
    /\ calls[c].observed = <<Failure(e)>>

\* C1: the object URL created for a File source is not revoked while the decode
\* is outstanding, and is revoked exactly once when the decode attempt has
\* completed, whether by a load event, an error event or an exception in the
\* load handler.
C1_ObjectUrlReleasedOnce ==
    \A c \in Calls :
        (Ts(c) /\ calls[c].source = "file" /\ calls[c].urlsCreated = 1) =>
            /\ (calls[c].events = <<>> => calls[c].revokes = 0)
            /\ (calls[c].events # <<>> =>
                    /\ Settled(c)
                    /\ calls[c].revokes = 1
                    /\ calls[c].objectURL = "revoked")

\* C2: a call whose decode the host completes with an error event is rejected
\* with ImageLoadError, produces no hex value and is not left pending.
C2_DecodeFailureRejects ==
    \A c \in Calls :
        (calls[c].events # <<>> /\ calls[c].events[1] = "error") =>
            FailedWith(c, ImageLoadError)

\* "#" followed by exactly six lowercase hexadecimal digits.
LowerHexDigits ==
    {"0", "1", "2", "3", "4", "5", "6", "7", "8", "9", "a", "b", "c", "d", "e", "f"}
CanonicalHex(s) ==
    /\ Len(s) = 7
    /\ s[1] = "#"
    /\ \A i \in 2..7 : s[i] \in LowerHexDigits

\* C3: whatever sequence of load and error events the host delivers, the
\* caller of the index.ts implementation observes at most one outcome, which
\* is the promise's final state and is either a complete "#rrggbb" string or
\* an error; when several settlements are attempted only the first is seen.
C3_AtMostOneOutcome ==
    \A c \in Calls :
        Ts(c) =>
            /\ Len(calls[c].observed) <= 1
            /\ (Settled(c) <=> Len(calls[c].observed) = 1)
            /\ (Settled(c) => calls[c].observed[1] = calls[c].outcome)
            /\ (calls[c].promise = "fulfilled" =>
                    /\ calls[c].outcome.tag = "value"
                    /\ CanonicalHex(calls[c].outcome.value))
            /\ (calls[c].promise = "rejected" =>
                    /\ calls[c].outcome.tag = "error"
                    /\ calls[c].outcome.value = <<>>)
            /\ (calls[c].promise \in {"none", "pending"} => calls[c].outcome = NoOutcome)

\* A load event and then an error event: the second settlement is ignored.
C3_Witness ==
    \E c \in Calls :
        /\ Ts(c)
        /\ calls[c].events = <<"load", "error">>
        /\ calls[c].settleCalls = 2
        /\ calls[c].promise = "fulfilled"
        /\ Len(calls[c].observed) = 1

\* C4: on a host where window or document is undefined the call fails with
\* EnvironmentError, and has created no canvas, no Image, no object URL and
\* started no decode.
C4_EnvironmentErrorFirst ==
    \A c \in Calls :
        (calls[c].pc # "idle" /\ (~host.window \/ ~host.document)) =>
            /\ FailedWith(c, EnvironmentError)
            /\ ~calls[c].canvas
            /\ ~calls[c].img.made
            /\ calls[c].urlsCreated = 0
            /\ calls[c].decodes = 0

\* C5: in the index.ts implementation, when the host raises an exception in
\* getImageData after a load event, the call is rejected with a
\* PixelAccessError whose message ends with the message of that exception,
\* and no hex value is produced.
C5_ReadbackFailureRejects ==
    \A c \in Calls :
        (/\ Ts(c)
         /\ calls[c].events = <<"load">>
         /\ calls[c].drawn = 1
         /\ calls[c].readbacks = 0) =>
            /\ Len(calls[c].raised) = 1
            /\ calls[c].raised[1] \in {SecurityError, IndexSizeError}
            /\ FailedWith(c, Err("PixelAccessError",
                    <<"[hextract] Failed to process image: ">> \o calls[c].raised[1].message))
            /\ calls[c].uncaught = <<>>

\* A cross-origin image: decoded, drawn, and refused by getImageData.
C5_Witness ==
    \E c \in Calls :
        /\ Ts(c)
        /\ calls[c].events = <<"load">>
        /\ calls[c].decoded.width > 0
        /\ calls[c].drawn = 1
        /\ calls[c].raised = <<SecurityError>>
        /\ calls[c].promise = "rejected"

HostUsable == host = Browser

\* C6 as stated: every index.ts call with a source that is none of the three
\* variants fails with InvalidInputError, with no decode and no object URL.
C6_Original ==
    \A c \in Calls :
        (Ts(c) /\ calls[c].source = "other" /\ calls[c].pc # "idle") =>
            /\ FailedWith(c, InvalidInputError)
            /\ calls[c].decodes = 0
            /\ calls[c].urlsCreated = 0

\* C6: an index.ts call with a source that is none of the three variants never
\* starts a decode and never creates an object URL; it fails with
\* InvalidInputError unless a check made before the source is looked at fails
\* first (window and document, the canvas, its 2D context), and then it fails
\* with the error of that check.
C6_InvalidSourceRejected ==
    \A c \in Calls :
        (Ts(c) /\ calls[c].source = "other" /\ calls[c].pc # "idle") =>
            /\ calls[c].pc = "returned"
            /\ calls[c].decodes = 0
            /\ calls[c].urlsCreated = 0
            /\ calls[c].handlers = {}
            /\ IF ~host.window \/ ~host.document THEN FailedWith(c, EnvironmentError)
               ELSE IF host.createElement = "null" THEN FailedWith(c, NullDeref)
               ELSE IF host.createElement = "throws" THEN FailedWith(c, CreateElementFailure)
               ELSE IF host.getContext = "null" THEN FailedWith(c, ContextError)
               ELSE FailedWith(c, InvalidInputError)

C6_Witness ==
    \E c \in Calls :
        /\ Ts(c)
        /\ calls[c].source = "other"
        /\ HostUsable
        /\ FailedWith(c, InvalidInputError)

\* C7: when document.createElement gives no canvas the call fails with
\* SurfaceError, when getContext("2d") gives no context it fails with
\* ContextError, and in both cases nothing is drawn or read back afterwards
\* (no drawImage or getImageData call is made, so none can throw).
C7_DedicatedSurfaceErrors ==
    \A c \in Calls :
        LET reachedCreate ==
                calls[c].pc # "idle" /\ host.document /\ (Ts(c) => host.window)
            reachedGetContext ==
                /\ reachedCreate
                /\ host.createElement = "canvas"
                /\ (~Ts(c) => "load" \in {calls[c].events[i] : i \in 1..Len(calls[c].events)})
        IN  /\ (reachedCreate /\ host.createElement # "canvas") =>
                    /\ FailedWith(c, SurfaceError)
                    /\ calls[c].drawn = 0 /\ calls[c].readbacks = 0
            /\ (reachedGetContext /\ host.getContext = "null") =>
                    /\ FailedWith(c, ContextError)
                    /\ calls[c].drawn = 0 /\ calls[c].readbacks = 0
                    /\ calls[c].uncaught = <<>>

\* The pixels of an image, and the sum of channel k over them.
PixelCount(im) == Len(im.data) \div 4
PixelAt(im, p) == SubSeq(im.data, 4 * (p - 1) + 1, 4 * p)
RECURSIVE ChannelSum(_, _, _)
ChannelSum(im, k, n) == IF n = 0 THEN 0 ELSE ChannelSum(im, k, n - 1) + PixelAt(im, n)[k]
Mean(im, k) == ChannelSum(im, k, PixelCount(im)) \div PixelCount(im)

\* The buffer of im with every alpha byte set to a.
WithAlpha(im, a) ==
    [im EXCEPT !.data = [i \in 1..Len(im.data) |-> IF i % 4 = 0 THEN a ELSE im.data[i]]]

\* C8: an index.ts call that has read back the buffer of a decoded image with
\* n >= 1 pixels is fulfilled with rgbToHex of the three channel sums, each
\* divided by n and truncated.  A buffer with the same RGB bytes and other
\* alpha bytes gives the same string; black next to white gives 7f in every
\* channel; an image of one colour gives that colour.
C8_TruncatedMean ==
    \A c \in Calls :
        (Ts(c) /\ calls[c].events = <<"load">> /\ calls[c].readbacks = 1) =>
            LET im == calls[c].decoded
            IN  /\ PixelCount(im) >= 1
                /\ calls[c].promise = "fulfilled"
                /\ calls[c].outcome = Value(rgbToHex(Mean(im, 1), Mean(im, 2), Mean(im, 3)))
                /\ \A a \in {0, 1, 128, 255} :
                      AverageHex(WithAlpha(im, a).data) = calls[c].outcome.value
                /\ (im = ImageOf(<<Black, White>>) =>
                      calls[c].outcome.value = <<"#", "7", "f", "7", "f", "7", "f">>)
                /\ \A px \in Pixels :
                      (\A p \in 1..PixelCount(im) : PixelAt(im, p) = px) =>
                          calls[c].outcome.value = rgbToHex(px[1], px[2], px[3])

\* Half black, half white.
C8_Witness ==
    \E c \in Calls :
        /\ Ts(c)
        /\ calls[c].decoded = ImageOf(<<Black, White>>)
        /\ calls[c].readbacks = 1
        /\ calls[c].promise = "fulfilled"

(***************************************************************************)
(* Properties of the codec.                                                *)
(***************************************************************************)
\* C9: the string rgbToHexString gives a triple of integers in 0..255 is "#"
\* and six lowercase hexadecimal digits, and hexToRgb of it is the triple.
C9_RoundTrip ==
    (codec.rgb # <<>>) =>
        /\ codec.rgb \in Channels \X Channels \X Channels
        /\ CanonicalHex(codec.hex)
        /\ (codec.stage = "parsed" => codec.result = Returned(codec.rgb))

\* A triple with one-digit channels, formatted and parsed back.
C9_Witness ==
    /\ codec.stage = "parsed"
    /\ codec.rgb = <<0, 9, 15>>
    /\ codec.hex = <<"#", "0", "0", "0", "9", "0", "f">>
    /\ codec.result = Returned(<<0, 9, 15>>)

AnyCaseHexDigits == LowerHexDigits \cup {"A", "B", "C", "D", "E", "F"}

\* An optional "#" and then exactly six hexadecimal digits of either case.
WellFormedInput(s) ==
    \/ Len(s) = 6 /\ \A i \in 1..6 : s[i] \in AnyCaseHexDigits
    \/ Len(s) = 7 /\ s[1] = "#" /\ \A i \in 2..7 : s[i] \in AnyCaseHexDigits

UpperOf(ch) ==
    CASE ch = "a" -> "A"
      [] ch = "b" -> "B"
      [] ch = "c" -> "C"
      [] ch = "d" -> "D"
      [] ch = "e" -> "E"
      [] ch = "f" -> "F"
      [] OTHER -> ch
Uppercased(s) == [i \in 1..Len(s) |-> UpperOf(s[i])]
Lowercased(s) == [i \in 1..Len(s) |-> LowerOf(s[i])]
WithoutHash(s) == IF s # <<>> /\ s[1] = "#" THEN Tail(s) ELSE s
WithHash(s) == <<"#">> \o WithoutHash(s)

\* C10: hexToRgb throws InvalidFormat exactly when its input is not an optional
\* "#" and six hexadecimal digits of either case; otherwise it returns three
\* integers in 0..255, the same for the input with and without its "#" and in
\* upper and in lower case.
C10_InvalidFormatExactly ==
    (codec.stage = "parsed") =>
        /\ (~WellFormedInput(codec.hex) =>
                /\ codec.result.tag = "throw"
                /\ codec.result.error.kind = "InvalidFormat")
        /\ (WellFormedInput(codec.hex) =>
                /\ codec.result.tag = "ok"
                /\ codec.result.value \in Channels \X Channels \X Channels
                /\ hexToRgb(WithoutHash(codec.hex)) = codec.result
                /\ hexToRgb(WithHash(codec.hex)) = codec.result
                /\ hexToRgb(Uppercased(codec.hex)) = codec.result
                /\ hexToRgb(Lowercased(codec.hex)) = codec.result)
        /\ (codec.hex \in {<<"f", "f", "5", "7", "3", "3">>,
                           <<"#", "F", "F", "5", "7", "3", "3">>} =>
                codec.result = Returned(<<255, 87, 51>>))

\* "#fff" is refused.
C10_Witness ==
    /\ codec.stage = "parsed"
    /\ codec.hex = <<"#", "f", "f", "f">>
    /\ codec.result.tag = "throw"
    /\ codec.result.error.kind = "InvalidFormat"

(***************************************************************************)
(* Properties of contrast.                                                 *)
(***************************************************************************)
\* C11: contrast of two valid colours is the same in either order of the
\* arguments, and contrast of a colour with itself is 1 (dividend = divisor).
C11_SymmetricAndUnit ==
    /\ (calc.stage = "swapped" => calc.swapped = calc.ratio)
    /\ ((calc.stage # "idle" /\ calc.rgb1 = calc.rgb2) =>
            /\ calc.ratio[1] = calc.ratio[2]
            /\ calc.ratio[2] > 0)

\* Two different colours, the darker one first, compared in both orders.
C11_Witness ==
    /\ calc.stage = "swapped"
    /\ calc.rgb1 = <<0, 0, 0>>
    /\ calc.rgb2 = <<255, 255, 255>>
    /\ calc.swapped = calc.ratio
    /\ calc.ratio[1] > calc.ratio[2]

AtMost21(ratio) == ratio[2] >= (ratio[1] + 20) \div 21
Exactly21(ratio) == ratio[1] % 21 = 0 /\ ratio[1] \div 21 = ratio[2]

\* C12: the luminance of a valid colour lies in [0, 1]; the contrast of two
\* valid colours lies in [1, 21]; it is 21 for black against white, and for
\* no other pair.
C12_ContrastRange ==
    (calc.stage # "idle") =>
        /\ 0 <= calc.lum1 /\ calc.lum1 <= LumOne
        /\ 0 <= calc.lum2 /\ calc.lum2 <= LumOne
        /\ calc.ratio[2] > 0
        /\ calc.ratio[1] >= calc.ratio[2]
        /\ AtMost21(calc.ratio)
        /\ (Exactly21(calc.ratio) <=>
                {calc.rgb1, calc.rgb2} = {<<0, 0, 0>>, <<MaxChannel, MaxChannel, MaxChannel>>})

\* Black against white.
C12_Witness ==
    /\ calc.stage = "called"
    /\ calc.rgb1 = <<0, 0, 0>>
    /\ calc.rgb2 = <<255, 255, 255>>
    /\ calc.lum1 = 0
    /\ calc.lum2 = LumOne
    /\ Exactly21(calc.ratio)

\* A call record without the identities of its objects.
Anonymous(cr) == [cr EXCEPT !.canvasId = 0, !.imgId = 0]

\* The records a call with this source can be in when it is the only call on
\* the host, its decode has been completed by these events, and a load event
\* brought the pixels im.
AloneRuns(h, source, events, im) ==
    LET entered == computeAverageColor(IdleCall, h, source)
    IN  IF entered.pc = "returned" THEN {IdleCall, entered}
        ELSE IF events = <<>> THEN {IdleCall, entered, newPromise(entered)}
        ELSE IF events = <<"error">>
        THEN {onerror([newPromise(entered) EXCEPT !.events = events])}
        ELSE IF events = <<"load">> /\ im \in Images
        THEN {onload([newPromise(entered) EXCEPT !.events = events], im, fault) :
                  fault \in Faults}
        ELSE {}

OwnObjects(c) ==
    \A d \in Calls \ {c} :
        /\ calls[c].canvas => calls[c].canvasId \notin {0, calls[d].canvasId}
        /\ calls[c].img.made => calls[c].imgId \notin {0, calls[d].imgId}

\* C13: calls in flight together share no object: each has a canvas and an
\* Image of its own; and whatever the other call does, and in whatever order
\* the decodes complete, a call is in a state, and has the outcome, that it
\* has when it runs alone with the same source, event, pixels and fault.
C13_CallsIndependent ==
    \A c \in Calls :
        Ts(c) =>
            /\ OwnObjects(c)
            /\ Anonymous(calls[c]) \in AloneRuns(host, calls[c].source, calls[c].events, calls[c].decoded)

\* Two calls in flight together, the later one (call 1) failed on its decode,
\* the earlier one fulfilled.
C13_Witness ==
    /\ Ts(1) /\ Ts(2)
    /\ calls[2].imgId = 1 /\ calls[1].imgId = 2
    /\ FailedWith(1, ImageLoadError)
    /\ calls[2].promise = "fulfilled"
    /\ calls[2].outcome = Value(<<"#", "1", "0", "5", "7", "0", "5">>)

\* The call has got past the environment, surface, context and source checks.
PastChecks(c) ==
    /\ Ts(c)
    /\ calls[c].pc # "idle"
    /\ HostUsable
    /\ calls[c].source \in {"element", "url", "file"}

\* C14: a call past its synchronous checks has started exactly one decode,
\* however many events the host delivers; while no event has been delivered
\* it is not settled (pending once it has returned) and has called neither
\* resolve nor reject; and it calls them at most once per delivered event.
C14_SingleShotDecode ==
    PastChecks(1) =>
        /\ calls[1].decodes = 1
        /\ calls[1].settleCalls <= Len(calls[1].events)
        /\ (calls[1].events = <<>> =>
                /\ ~Settled(1)
                /\ calls[1].outcome = NoOutcome
                /\ (calls[1].pc = "returned" => calls[1].promise = "pending"))
        /\ (Settled(1) => calls[1].settleCalls >= 1)

\* The call has returned and waits: its decode is outstanding, no event yet.
C14_Witness ==
    /\ PastChecks(1)
    /\ calls[1].pc = "returned"
    /\ calls[1].decodes = 1
    /\ calls[1].events = <<>>
    /\ calls[1].promise = "pending"

\* C15: while the synchronous code of a call runs, its decode is started and
\* its handlers are not yet attached, and no event is delivered to it; once
\* it has returned both handlers are attached to its Image; hence the event
\* that completes the decode finds its handler and settles the call.
C15_NoEventBeforeHandlers ==
    \A c \in Calls :
        PastChecks(c) =>
            /\ (calls[c].pc = "sync" =>
                    /\ running = c
                    /\ calls[c].decodes = 1
                    /\ calls[c].handlers = {}
                    /\ heap.images[calls[c].imgId] = NoHandlers
                    /\ calls[c].events = <<>>)
            /\ (calls[c].pc = "returned" =>
                    /\ calls[c].handlers = {"load", "error"}
                    /\ heap.images[calls[c].imgId] = [onload |-> c, onerror |-> c])
            /\ (calls[c].events # <<>> =>
                    /\ calls[c].pc = "returned"
                    /\ calls[c].settleCalls = 1
                    /\ Settled(c))

\* Call 1 is between img.src and the handlers while the decode of call 2 is
\* outstanding.
C15_Witness ==
    /\ PastChecks(1) /\ PastChecks(2)
    /\ calls[1].pc = "sync"
    /\ calls[1].decodes = 1
    /\ calls[1].handlers = {}
    /\ calls[2].pc = "returned"
    /\ calls[2].promise = "pending"
    /\ calls[2].events = <<>>

=============================================================================
